---- MODULE Spec2Model ----
(***************************************************************************)
(* Data orchestration of the tariff dashboard front end.                   *)
(*                                                                         *)
(* The repository holds two revisions of the context provider:             *)
(*   "part_001"      src/unnamed/part_001: fetchAllData, the 5 minute      *)
(*                   poll and handleUpdate (triggerUpdate), driven by the  *)
(*                   Dashboard of Dashboard.js:1-103;                      *)
(*   "TariffContext" src/frontend/src/context/TariffContext.js:            *)
(*                   loadDashboardData(forceRefresh), driven by the        *)
(*                   Dashboard of Dashboard.js:104-209.                    *)
(* The variable provider says which of the two is mounted; the state       *)
(* hooks that both declare under one name share one variable.              *)
(*                                                                         *)
(* JavaScript runs every handler to its next await without interruption,   *)
(* so one action is one such run: the synchronous part of a call, or the   *)
(* continuation that a settled promise resumes (with the microtasks it     *)
(* queues, e.g. the finally block of a caller awaiting it).                *)
(*                                                                         *)
(* Spec and FairSpec are the orchestration: there a collection stands for  *)
(* the response it was read from.  TableSpec, SelSpec and MapSpec are the  *)
(* views below the part_001 provider (the table of                         *)
(* DetailedMetricsTable.js, the map of HistoricalTrends.js:181-312, the    *)
(* pie chart of GlobalHeatmap.js:239-319): there heatmapData, sectorData   *)
(* and tableData hold their records.  ScaleSpec is the colour scale of the *)
(* map and the exported one of part_000:58-68 under every call.            *)
(***************************************************************************)
EXTENDS Integers, FiniteSets, Sequences, TLC

VARIABLES
    provider,        \* which revision of the provider is mounted
    lifecycle,       \* "rendered" (before useEffect), "mounted", "unmounted"
    now,             \* the clock read by new Date(), in ms since mount
    loading,         \* useState(true)
    error,           \* useState(null)
    dashboardData,   \* useState(null)
    heatmapData,     \* useState([])
    sectorData,      \* useState([])
    timeSeriesData,  \* useState([])
    tableData,       \* useState({ countries: [], industries: [] })
    updateStatus,    \* useState({ isUpdating: false, lastUpdated: null })
    lastUpdated,     \* TariffContext.js: useState(null)
    isUpdating,      \* Dashboard.js:11 useState(false)
    isRefreshing,    \* Dashboard.js:114 useState(false)
    cycles,          \* the fetch cycles in flight: id -> where each one waits
    nextCycle,       \* the id the next fetch cycle gets (start order)
    updateRequests,  \* POST /api/update requests in flight
    nUpdates,        \* handleUpdate calls made so far
    timeouts,        \* pending setTimeout(fetchAllData, 5000) timers
    intervalDue,     \* when setInterval fires next; NoTime when not armed
    selectedCountry, \* part_001:22 useState(null)
    selectedIndustry,\* part_001:23 useState(null)
    activeTab,       \* DetailedMetricsTable.js:7 useState('countries')
    searchTerm,      \* DetailedMetricsTable.js:8 useState('')
    sortConfig,      \* DetailedMetricsTable.js:9 useState({ key, direction })
    tableRows,       \* DetailedMetricsTable.js:10 useState([])
    fetchedTable,    \* history: detail_table as the last response carried it
    lastClick,       \* history: the surface last clicked and what the click did
    countriesWithCoords, \* HistoricalTrends.js:183 useState([])
    colorScale       \* history: the last call of getColorScale and its result

provVars == <<loading, error, dashboardData, heatmapData, sectorData,
              timeSeriesData, tableData, updateStatus, lastUpdated>>
dashVars == <<isUpdating, isRefreshing>>
asyncVars == <<cycles, nextCycle, updateRequests, nUpdates, timeouts, intervalDue>>
viewVars == <<selectedCountry, selectedIndustry, activeTab, searchTerm, sortConfig,
              tableRows, fetchedTable, lastClick>>
mapVars == <<countriesWithCoords, colorScale>>
vars == <<provider, lifecycle, now, provVars, dashVars, asyncVars, viewVars, mapVars>>

----------------------------------------------------------------------------
(* Bounds of the exploration.                                              *)
MaxOps == 4                    \* fetch cycles and manual updates started
MaxTicks == 1                  \* advances of the clock
MaxCycles == MaxOps
MaxUpdates == MaxOps

(* Program constants.                                                      *)
RefetchDelayMs == 5000
PollPeriodMs == 5 * 60 * 1000

----------------------------------------------------------------------------
(* JavaScript values.                                                      *)
NULL == "null"                 \* null / undefined, where the other values are strings
NoTime == -1                   \* null, where the other values are times

Fields == {"heatmap_data", "sector_data", "time_series", "detail_table"}

(* A collection is identified by the response it was read from: the cycle  *)
(* that fetched it and whether it came in the composite or from its own    *)
(* endpoint.  EMPTY is [], and { countries: [], industries: [] } for       *)
(* tableData.                                                              *)
EMPTY == [src |-> "empty", cyc |-> 0]
FromDashboard(c) == [src |-> "dashboard", cyc |-> c]
FromEndpoint(c) == [src |-> "endpoint", cyc |-> c]

(* The composite payload: null, or an object holding the sub-collections   *)
(* named in shape.                                                         *)
NODATA == [isNull |-> TRUE, cyc |-> 0, shape |-> {}]
Composite(c, S) == [isNull |-> FALSE, cyc |-> c, shape |-> S]

Snapshot == <<dashboardData, heatmapData, sectorData, timeSeriesData, tableData>>

Alive == lifecycle # "unmounted"

(* Faulty variant: a state update reaches an unmounted component.         *)
StWritesUnmounted(new, old) == new

(* React drops a state update of an unmounted component.                   *)
St(new, old) == IF Alive THEN new ELSE old

----------------------------------------------------------------------------
(* services/api.js.  An HTTP exchange ends in a network error or a non-2xx *)
(* status ("error"), or in a 2xx response whose body is JSON null ("null") *)
(* or an object ("object"; an empty body reads like an object without      *)
(* fields).                                                                *)
HttpError(none) == [status |-> "error", body |-> "none", data |-> none]
HttpNull(none) == [status |-> "ok", body |-> "null", data |-> none]
HttpObject(d) == [status |-> "ok", body |-> "object", data |-> d]

(* fetchDashboardData .. fetchTableData: return response.data.data; a      *)
(* failed request, and the TypeError of reading .data of null, are logged  *)
(* and thrown again.                                                       *)
ApiGet(resp) ==
    [threw |-> resp.status = "error" \/ resp.body = "null", value |-> resp.data]

(* triggerUpdate: return response.data, thrown again on a failed request.  *)
ApiTriggerUpdate(resp) ==
    [threw |-> resp.status = "error", isNull |-> resp.body # "object", value |-> resp.data]

(* The composite payloads GET /api/dashboard may answer a cycle with: all   *)
(* four sub-collections, or all but the table.                             *)
CompositeShapes == {Fields, Fields \ {"detail_table"}}

DashboardResponses(c) ==
    {HttpError(NODATA), HttpNull(NODATA), HttpObject(NODATA)}
        \cup {HttpObject(Composite(c, S)) : S \in CompositeShapes}

(* What the four constituent promises of one Promise.all settle to: each   *)
(* is rejected, or resolves to null or to its collection.                  *)
AllData == [f \in Fields |-> "data"]
ConstituentResults ==
    {AllData,
     [AllData EXCEPT !["heatmap_data"] = "rejected"],
     [AllData EXCEPT !["detail_table"] = "null"],
     [AllData EXCEPT !["sector_data"] = "null", !["time_series"] = "rejected"]}

(* POST /api/update: { message? }.                                         *)
UpdateResponses ==
    {HttpError(NULL), HttpNull(NULL), HttpObject(NULL), HttpObject("message")}

FETCH_ERROR == "Failed to fetch dashboard data. Please try again later."
LOAD_ERROR == "Failed to load dashboard data. Please try again later."
UPDATE_ERROR == "Update failed. Please try again."

----------------------------------------------------------------------------
(* Bookkeeping.                                                            *)
Without(f, k) == [x \in DOMAIN f \ {k} |-> f[x]]
With(f, k, v) == [x \in DOMAIN f \cup {k} |-> IF x = k THEN v ELSE f[x]]
RemoveAt(s, i) == [j \in 1..(Len(s) - 1) |-> IF j < i THEN s[j] ELSE s[j + 1]]

InFlight == DOMAIN cycles

(* A fetch cycle enters the cycles in flight.  Beside where it waits (pc)  *)
(* and its forceRefresh argument, the entry remembers the snapshot held    *)
(* when the cycle started (before) and whether the cycle has had the       *)
(* provider to itself since (alone): both are history kept for the         *)
(* properties and are never read by an action.                             *)
StartCycle(pc, force) ==
    With([k \in DOMAIN cycles |-> [cycles[k] EXCEPT !.alone = FALSE]], nextCycle,
         [pc |-> pc, force |-> force, before |-> Snapshot, alone |-> InFlight = {}])
OpsStarted == (nextCycle - 1) + nUpdates
TicksTaken == (now \div PollPeriodMs) + ((now % PollPeriodMs) \div RefetchDelayMs)
TickSteps == {RefetchDelayMs, PollPeriodMs}

----------------------------------------------------------------------------
(* The values held by the records of the views.  A string is the sequence  *)
(* of its characters; a record is a function from the names of the fields  *)
(* it has.                                                                 *)
Undefined == [k |-> "undefined", n |-> 0, s |-> << >>]
JsNull == [k |-> "null", n |-> 0, s |-> << >>]
NaN == [k |-> "NaN", n |-> 0, s |-> << >>]
NegInfinity == [k |-> "-Infinity", n |-> 0, s |-> << >>]
Num(n) == [k |-> "number", n |-> n, s |-> << >>]
Str(s) == [k |-> "string", n |-> 0, s |-> s]

(* item.field: undefined when the record has no such field.                *)
Get(item, field) == IF field \in DOMAIN item THEN item[field] ELSE Undefined

(* The letters the strings are written with, in the order of their code    *)
(* units: every upper-case letter is below every lower-case one.           *)
UpperChars == <<"A", "C", "D", "I", "N", "S", "U">>
LowerChars == <<"a", "c", "d", "i", "n", "s", "u">>
CharOrder == UpperChars \o LowerChars
CodeUnitRank(ch) == CHOOSE i \in DOMAIN CharOrder : CharOrder[i] = ch

(* The tabs of the table, its initial contents and its initial order.      *)
Tabs == {"countries", "industries"}
EmptyTable == [countries |-> << >>, industries |-> << >>]
DefaultSort == [key |-> "effective_tariff", direction |-> "descending"]

(* The surfaces a selection is made on.                                    *)
NoClick == [surface |-> "none", cleared |-> FALSE]

(* getColorScale not called yet.                                           *)
NoCall == [impl |-> "none"]

(* part_001:22-23, DetailedMetricsTable.js:7-10 and                       *)
(* HistoricalTrends.js:183, the hooks as declared.                         *)
ViewHooks ==
    /\ selectedCountry = JsNull
    /\ selectedIndustry = JsNull
    /\ activeTab = "countries"
    /\ searchTerm = << >>
    /\ sortConfig = DefaultSort
    /\ tableRows = << >>
    /\ fetchedTable = EmptyTable
    /\ lastClick = NoClick
    /\ countriesWithCoords = << >>
    /\ colorScale = NoCall

----------------------------------------------------------------------------
Init ==
    /\ provider \in {"part_001", "TariffContext"}
    /\ lifecycle = "rendered"
    /\ now = 0
    /\ loading = TRUE
    /\ error = NULL
    /\ dashboardData = NODATA
    /\ heatmapData = EMPTY
    /\ sectorData = EMPTY
    /\ timeSeriesData = EMPTY
    /\ tableData = EMPTY
    /\ updateStatus = [isUpdating |-> FALSE, lastUpdated |-> NoTime,
                       message |-> NULL, error |-> NULL]
    /\ lastUpdated = NoTime
    /\ isUpdating = FALSE
    /\ isRefreshing = FALSE
    /\ cycles = << >>
    /\ nextCycle = 1
    /\ updateRequests = 0
    /\ nUpdates = 0
    /\ timeouts = << >>
    /\ intervalDue = NoTime
    /\ ViewHooks

----------------------------------------------------------------------------
(* part_001:25-30, fetchAllData up to its first await: setLoading(true),   *)
(* setError(null), GET /api/dashboard sent.                                *)
FetchAllDataStart ==
    /\ OpsStarted < MaxOps
    /\ loading' = St(TRUE, loading)
    /\ error' = St(NULL, error)
    /\ cycles' = StartCycle("dashboard", FALSE)
    /\ nextCycle' = nextCycle + 1

(* part_001:33, if (dashboardResponse).                                    *)
CompositeUsable(d) == ~d.isNull

(* Faulty variant: the table is read under the name of its own endpoint,   *)
(* table, which the composite does not carry.                              *)
CompositeFieldWrongKey(d, f, old) ==
    IF f \in d.shape \ {"detail_table"} THEN FromDashboard(d.cyc) ELSE old

(* part_001:34-37, if (dashboardResponse.f) setF(dashboardResponse.f).     *)
CompositeField(d, f, old) ==
    IF f \in d.shape THEN FromDashboard(d.cyc) ELSE old

(* part_001:47-50, setF(result || []).                                     *)
ConstituentField(r, f, c) ==
    IF r[f] = "data" THEN FromEndpoint(c) ELSE EMPTY

(* part_001:52-57, catch and finally of fetchAllData.                      *)
FetchAllDataCatch(c) ==
    /\ error' = St(FETCH_ERROR, error)
    /\ loading' = St(FALSE, loading)
    /\ cycles' = Without(cycles, c)

(* part_001:30-57, fetchAllData resumed by the composite response.         *)
DashboardSettles(c, resp) ==
    /\ provider = "part_001"
    /\ c \in InFlight /\ cycles[c].pc = "dashboard"
    /\ resp \in DashboardResponses(c)
    /\ LET r == ApiGet(resp) IN
        \/ /\ r.threw
           /\ FetchAllDataCatch(c)
           /\ UNCHANGED <<dashboardData, heatmapData, sectorData, timeSeriesData, tableData>>
        \/ /\ ~r.threw /\ CompositeUsable(r.value)
           /\ dashboardData' = St(r.value, dashboardData)
           /\ heatmapData' = St(CompositeField(r.value, "heatmap_data", heatmapData), heatmapData)
           /\ sectorData' = St(CompositeField(r.value, "sector_data", sectorData), sectorData)
           /\ timeSeriesData' = St(CompositeField(r.value, "time_series", timeSeriesData), timeSeriesData)
           /\ tableData' = St(CompositeField(r.value, "detail_table", tableData), tableData)
           /\ loading' = St(FALSE, loading)
           /\ cycles' = Without(cycles, c)
           /\ UNCHANGED error
        \/ /\ ~r.threw /\ ~CompositeUsable(r.value)
           /\ dashboardData' = St(r.value, dashboardData)
           /\ cycles' = [cycles EXCEPT ![c].pc = "all"]
           /\ UNCHANGED <<loading, error, heatmapData, sectorData, timeSeriesData, tableData>>
    /\ UNCHANGED <<viewVars, mapVars>>
    /\ UNCHANGED <<provider, lifecycle, now, updateStatus, lastUpdated, dashVars,
                   nextCycle, updateRequests, nUpdates, timeouts, intervalDue>>

(* part_001:40-57, fetchAllData resumed by Promise.all: it rejects as soon *)
(* as one of the four promises rejects and resolves when all four have.    *)
ConstituentsSettle(c, r) ==
    /\ provider = "part_001"
    /\ c \in InFlight /\ cycles[c].pc = "all"
    /\ r \in ConstituentResults
    /\ \/ /\ \E f \in Fields : r[f] = "rejected"
          /\ FetchAllDataCatch(c)
          /\ UNCHANGED <<heatmapData, sectorData, timeSeriesData, tableData>>
       \/ /\ \A f \in Fields : r[f] # "rejected"
          /\ heatmapData' = St(ConstituentField(r, "heatmap_data", c), heatmapData)
          /\ sectorData' = St(ConstituentField(r, "sector_data", c), sectorData)
          /\ timeSeriesData' = St(ConstituentField(r, "time_series", c), timeSeriesData)
          /\ tableData' = St(ConstituentField(r, "detail_table", c), tableData)
          /\ loading' = St(FALSE, loading)
          /\ cycles' = Without(cycles, c)
          /\ UNCHANGED error
    /\ UNCHANGED <<viewVars, mapVars>>
    /\ UNCHANGED <<provider, lifecycle, now, dashboardData, updateStatus, lastUpdated,
                   dashVars, nextCycle, updateRequests, nUpdates, timeouts, intervalDue>>

(* part_001:60-65, the effect run after the first render: fetchAllData()   *)
(* and setInterval(fetchAllData, 5 * 60 * 1000).                           *)
MountProvider ==
    /\ provider = "part_001"
    /\ lifecycle = "rendered"
    /\ lifecycle' = "mounted"
    /\ FetchAllDataStart
    /\ intervalDue' = now + PollPeriodMs
    /\ UNCHANGED <<viewVars, mapVars>>
    /\ UNCHANGED <<provider, now, dashboardData, heatmapData, sectorData, timeSeriesData,
                   tableData, updateStatus, lastUpdated, dashVars, updateRequests,
                   nUpdates, timeouts>>

(* part_001:63, the interval fires.                                        *)
PollFires ==
    /\ provider = "part_001"
    /\ intervalDue # NoTime /\ now >= intervalDue
    /\ FetchAllDataStart
    /\ intervalDue' = intervalDue + PollPeriodMs
    /\ UNCHANGED <<viewVars, mapVars>>
    /\ UNCHANGED <<provider, lifecycle, now, dashboardData, heatmapData, sectorData,
                   timeSeriesData, tableData, updateStatus, lastUpdated, dashVars,
                   updateRequests, nUpdates, timeouts>>

(* part_001:78, a timer set by handleUpdate fires.                         *)
TimeoutFires(i) ==
    /\ provider = "part_001"
    /\ i \in DOMAIN timeouts /\ now >= timeouts[i].setAt + timeouts[i].delay
    /\ FetchAllDataStart
    /\ timeouts' = RemoveAt(timeouts, i)
    /\ UNCHANGED <<viewVars, mapVars>>
    /\ UNCHANGED <<provider, lifecycle, now, dashboardData, heatmapData, sectorData,
                   timeSeriesData, tableData, updateStatus, lastUpdated, dashVars,
                   updateRequests, nUpdates, intervalDue>>

(* Faulty variant: the cleanup leaves the interval running.                *)
UnmountProviderKeepsInterval ==
    /\ lifecycle = "mounted"
    /\ lifecycle' = "unmounted"
    /\ UNCHANGED <<viewVars, mapVars>>
    /\ UNCHANGED <<provider, now, provVars, dashVars, cycles, nextCycle,
                   updateRequests, nUpdates, timeouts, intervalDue>>

(* React unmounts the provider and the Dashboard below it; part_001:64,    *)
(* the effect's cleanup, is clearInterval(intervalId).  TariffContext.js   *)
(* has no cleanup.                                                         *)
UnmountProvider ==
    /\ lifecycle = "mounted"
    /\ lifecycle' = "unmounted"
    /\ intervalDue' = NoTime
    /\ UNCHANGED <<viewVars, mapVars>>
    /\ UNCHANGED <<provider, now, provVars, dashVars, cycles, nextCycle,
                   updateRequests, nUpdates, timeouts>>

----------------------------------------------------------------------------
(* Faulty variant: the button is never disabled.                           *)
UpdateButtonNeverDisabled == FALSE

(* Dashboard.js:46, disabled={isUpdating}.                                 *)
UpdateButtonDisabled == isUpdating

(* Faulty variant: the previous status is not spread into the new one.     *)
StatusOnTriggerNoSpread(us) ==
    [isUpdating |-> TRUE, lastUpdated |-> NoTime, message |-> NULL, error |-> NULL]

(* part_001:68, setUpdateStatus({ ...updateStatus, isUpdating: true }).    *)
StatusOnTrigger(us) == [us EXCEPT !.isUpdating = TRUE]

(* part_001:71-75.                                                         *)
StatusOnSuccess(result) ==
    [isUpdating |-> FALSE, lastUpdated |-> now, message |-> result, error |-> NULL]

(* Faulty variant: the catch leaves isUpdating set.                        *)
StatusOnFailureStillUpdating ==
    [isUpdating |-> TRUE, lastUpdated |-> now, message |-> NULL, error |-> UPDATE_ERROR]

(* part_001:80-84.                                                         *)
StatusOnFailure ==
    [isUpdating |-> FALSE, lastUpdated |-> now, message |-> NULL, error |-> UPDATE_ERROR]

(* part_001:78, setTimeout(fetchAllData, 5000).                            *)
ScheduleRefetch(ts) == Append(ts, [setAt |-> now, delay |-> RefetchDelayMs])

(* Dashboard.js:14-17 and part_001:67-70: a click on "Update Data" runs    *)
(* Dashboard.handleUpdate and, in it, handleUpdate up to its await.        *)
ClickUpdate ==
    /\ provider = "part_001"
    /\ lifecycle = "mounted"
    /\ ~UpdateButtonDisabled
    /\ OpsStarted < MaxOps
    /\ isUpdating' = TRUE
    /\ updateStatus' = StatusOnTrigger(updateStatus)
    /\ updateRequests' = updateRequests + 1
    /\ nUpdates' = nUpdates + 1
    /\ UNCHANGED <<viewVars, mapVars>>
    /\ UNCHANGED <<provider, lifecycle, now, loading, error, dashboardData, heatmapData,
                   sectorData, timeSeriesData, tableData, lastUpdated, isRefreshing,
                   cycles, nextCycle, timeouts, intervalDue>>

(* part_001:70-85 and Dashboard.js:18-20: handleUpdate resumed by the      *)
(* update request; result.message of a null result throws into the catch.  *)
(* Dashboard.handleUpdate, awaiting it, then runs its finally block.       *)
UpdateSettles(resp) ==
    /\ provider = "part_001"
    /\ updateRequests > 0
    /\ resp \in UpdateResponses
    /\ LET r == ApiTriggerUpdate(resp) IN
        \/ /\ ~r.threw /\ ~r.isNull
           /\ updateStatus' = St(StatusOnSuccess(r.value), updateStatus)
           /\ timeouts' = ScheduleRefetch(timeouts)
        \/ /\ r.threw \/ r.isNull
           /\ updateStatus' = St(StatusOnFailure, updateStatus)
           /\ UNCHANGED timeouts
    /\ isUpdating' = St(FALSE, isUpdating)
    /\ updateRequests' = updateRequests - 1
    /\ UNCHANGED <<viewVars, mapVars>>
    /\ UNCHANGED <<provider, lifecycle, now, loading, error, dashboardData, heatmapData,
                   sectorData, timeSeriesData, tableData, lastUpdated, isRefreshing,
                   cycles, nextCycle, nUpdates, intervalDue>>

----------------------------------------------------------------------------
(* The TariffContext.js revision.  It imports refreshData from             *)
(* services/api, which the api.js at hand does not export: refreshData is  *)
(* taken from the interface description, POST /api/refresh, resolved on a  *)
(* 2xx response and rejected otherwise.                                    *)
RefreshResponses == {HttpError(NULL), HttpObject(NULL)}
ApiRefreshData(resp) == [threw |-> resp.status = "error"]

(* Faulty variant: the snapshot is read without awaiting the refresh.      *)
FirstAwaitSkipsRefresh(forceRefresh) == "dashboard"

(* TariffContext.js:12-18, loadDashboardData up to its first await:        *)
(* setLoading(true), then the refresh request when forceRefresh and the    *)
(* snapshot read otherwise.                                                *)
FirstAwait(forceRefresh) == IF forceRefresh THEN "refresh" ELSE "dashboard"

LoadDashboardDataStart(forceRefresh) ==
    /\ OpsStarted < MaxOps
    /\ loading' = St(TRUE, loading)
    /\ cycles' = StartCycle(FirstAwait(forceRefresh), forceRefresh)
    /\ nextCycle' = nextCycle + 1

(* TariffContext.js:22-27, catch and finally of loadDashboardData.         *)
LoadDashboardDataCatch(c) ==
    /\ error' = St(LOAD_ERROR, error)
    /\ loading' = St(FALSE, loading)
    /\ cycles' = Without(cycles, c)

(* Dashboard.js:120-122: handleRefresh, awaiting refreshData(), runs its   *)
(* finally block once loadDashboardData(true) has returned.                *)
AfterRefresh(c) == IF cycles[c].force THEN St(FALSE, isRefreshing) ELSE isRefreshing

(* TariffContext.js:30-32, the effect run after the first render.          *)
MountContext ==
    /\ provider = "TariffContext"
    /\ lifecycle = "rendered"
    /\ lifecycle' = "mounted"
    /\ LoadDashboardDataStart(FALSE)
    /\ UNCHANGED <<viewVars, mapVars>>
    /\ UNCHANGED <<provider, now, error, dashboardData, heatmapData, sectorData,
                   timeSeriesData, tableData, updateStatus, lastUpdated, dashVars,
                   updateRequests, nUpdates, timeouts, intervalDue>>

(* Dashboard.js:125-183: the error view shows "Try Again", never disabled; *)
(* the first load shows a spinner and no button; otherwise "Refresh Data"  *)
(* is disabled while isRefreshing.                                         *)
RefreshButtonEnabled ==
    IF error # NULL THEN TRUE
    ELSE IF loading /\ dashboardData.isNull THEN FALSE
    ELSE ~isRefreshing

(* Dashboard.js:116-119 and TariffContext.js:39: a click runs              *)
(* handleRefresh and, in it, loadDashboardData(true) up to its await.      *)
ClickRefresh ==
    /\ provider = "TariffContext"
    /\ lifecycle = "mounted"
    /\ RefreshButtonEnabled
    /\ isRefreshing' = TRUE
    /\ LoadDashboardDataStart(TRUE)
    /\ UNCHANGED <<viewVars, mapVars>>
    /\ UNCHANGED <<provider, lifecycle, now, error, dashboardData, heatmapData,
                   sectorData, timeSeriesData, tableData, updateStatus, lastUpdated,
                   isUpdating, updateRequests, nUpdates, timeouts, intervalDue>>

(* TariffContext.js:16-18, loadDashboardData resumed by refreshData().     *)
RefreshSettles(c, resp) ==
    /\ provider = "TariffContext"
    /\ c \in InFlight /\ cycles[c].pc = "refresh"
    /\ resp \in RefreshResponses
    /\ \/ /\ ApiRefreshData(resp).threw
          /\ LoadDashboardDataCatch(c)
          /\ isRefreshing' = AfterRefresh(c)
       \/ /\ ~ApiRefreshData(resp).threw
          /\ cycles' = [cycles EXCEPT ![c].pc = "dashboard"]
          /\ UNCHANGED <<error, loading, isRefreshing>>
    /\ UNCHANGED <<viewVars, mapVars>>
    /\ UNCHANGED <<provider, lifecycle, now, dashboardData, heatmapData, sectorData,
                   timeSeriesData, tableData, updateStatus, lastUpdated, isUpdating,
                   nextCycle, updateRequests, nUpdates, timeouts, intervalDue>>

(* TariffContext.js:18-27, loadDashboardData resumed by the snapshot read. *)
SnapshotSettles(c, resp) ==
    /\ provider = "TariffContext"
    /\ c \in InFlight /\ cycles[c].pc = "dashboard"
    /\ resp \in DashboardResponses(c)
    /\ LET r == ApiGet(resp) IN
        \/ /\ r.threw
           /\ LoadDashboardDataCatch(c)
           /\ UNCHANGED <<dashboardData, lastUpdated>>
        \/ /\ ~r.threw
           /\ dashboardData' = St(r.value, dashboardData)
           /\ lastUpdated' = St(now, lastUpdated)
           /\ error' = St(NULL, error)
           /\ loading' = St(FALSE, loading)
           /\ cycles' = Without(cycles, c)
    /\ isRefreshing' = AfterRefresh(c)
    /\ UNCHANGED <<viewVars, mapVars>>
    /\ UNCHANGED <<provider, lifecycle, now, heatmapData, sectorData, timeSeriesData,
                   tableData, updateStatus, isUpdating, nextCycle, updateRequests,
                   nUpdates, timeouts, intervalDue>>

----------------------------------------------------------------------------
(* Time passes.                                                            *)
Tick(d) ==
    /\ d \in TickSteps
    /\ lifecycle # "rendered"
    /\ TicksTaken < MaxTicks
    /\ now' = now + d
    /\ UNCHANGED <<viewVars, mapVars>>
    /\ UNCHANGED <<provider, lifecycle, provVars, dashVars, asyncVars>>

Next ==
    \/ MountProvider
    \/ UnmountProvider
    \/ PollFires
    \/ \E i \in 1..MaxUpdates : TimeoutFires(i)
    \/ \E c \in 1..MaxCycles : \E resp \in DashboardResponses(c) : DashboardSettles(c, resp)
    \/ \E c \in 1..MaxCycles : \E r \in ConstituentResults : ConstituentsSettle(c, r)
    \/ ClickUpdate
    \/ \E resp \in UpdateResponses : UpdateSettles(resp)
    \/ MountContext
    \/ ClickRefresh
    \/ \E c \in 1..MaxCycles : \E resp \in RefreshResponses : RefreshSettles(c, resp)
    \/ \E c \in 1..MaxCycles : \E resp \in DashboardResponses(c) : SnapshotSettles(c, resp)
    \/ \E d \in TickSteps : Tick(d)

Spec == Init /\ [][Next]_vars

(* The same, with every update request answered in the end.               *)
FairSpec == Spec /\ WF_vars(\E resp \in UpdateResponses : UpdateSettles(resp))

----------------------------------------------------------------------------
(* The views.  Bounds and inputs.                                          *)
MaxRows == 3                   \* records of one collection of a response

(* The records a response is made of: the countries in any order, the     *)
(* industries in the order of their feed.  The second industry comes       *)
(* without a name and without a tariff.                                    *)
CountryPool ==
    {[country_code |-> Str(<<"U", "S">>), country_name |-> Str(<<"U", "s", "a">>),
      region |-> Str(<<"N", "a">>), effective_tariff |-> Num(5)],
     [country_code |-> Str(<<"C", "A">>), country_name |-> Str(<<"C", "a", "n">>),
      region |-> Str(<<"N", "a">>), effective_tariff |-> Num(5)],
     [country_code |-> Str(<<"I", "N">>), country_name |-> Str(<<"I", "n", "d">>),
      region |-> Str(<<"A", "s">>), effective_tariff |-> Num(1)]}
IndustryFeed ==
    <<[industry_code |-> Str(<<"C", "N">>), industry_name |-> Str(<<"C", "a", "n">>),
       sector |-> Str(<<"I", "n", "d">>), effective_tariff |-> Num(5)],
      [industry_code |-> Str(<<"S", "D">>), sector |-> Str(<<"S", "a", "n", "d">>)]>>

(* What the user types into the search box.                                *)
Queries == {<< >>, <<"N", "A">>, <<"d", "d">>}

Range(seq) == {seq[i] : i \in DOMAIN seq}

(* The sequences of at most n different records of P.                      *)
RECURSIVE Lists(_, _)
Lists(P, n) ==
    IF n = 0 THEN {<< >>}
    ELSE LET shorter == Lists(P, n - 1)
             longest == {l \in shorter : Len(l) = n - 1}
         IN shorter \cup {Append(x[1], x[2]) :
                             x \in {y \in longest \X P : y[2] \notin Range(y[1])}}

(* The first records of feed, at most n of them.                           *)
Prefixes(feed, n) == {SubSeq(feed, 1, k) : k \in {j \in 0..Len(feed) : j <= n}}

(* The map and the pie chart of a response show the entities of its table: *)
(* one point per country, carrying its coordinates, and one slice per      *)
(* industry, named by sector or, in the other spelling of the feed, by     *)
(* SECTOR.                                                                 *)
HeatmapEntry(c) ==
    [country_code |-> c.country_code, country_name |-> c.country_name,
     lat |-> Num(1), lng |-> Num(1), value |-> c.effective_tariff]
SectorEntry(ind) ==
    IF "industry_name" \in DOMAIN ind THEN [sector |-> ind.sector, percentage |-> Num(1)]
    ELSE [SECTOR |-> ind.sector, PERCENTAGE |-> Num(1)]
SnapshotOf(cs, is) ==
    [detail_table |-> [countries |-> cs, industries |-> is],
     heatmap_data |-> [i \in DOMAIN cs |-> HeatmapEntry(cs[i])],
     sector_data |-> [i \in DOMAIN is |-> SectorEntry(is[i])]]
Snapshots ==
    {SnapshotOf(cs, is) : cs \in Lists(CountryPool, MaxRows),
                          is \in Prefixes(IndustryFeed, MaxRows)}

----------------------------------------------------------------------------
(* JavaScript operators, on the values above.                              *)

(* Truthiness: "", 0, NaN, null and undefined are falsy.                   *)
Truthy(v) ==
    CASE v.k = "string" -> v.s # << >>
      [] v.k = "number" -> v.n # 0
      [] v.k = "-Infinity" -> TRUE
      [] OTHER -> FALSE

(* a || b.                                                                 *)
Or(a, b) == IF Truthy(a) THEN a ELSE b

(* parseFloat.  No string over the letters above starts with a number, so  *)
(* every string parses to NaN, as null and undefined do.                   *)
ParseFloat(v) == IF v.k \in {"number", "-Infinity"} THEN v ELSE NaN

(* ToNumber, as the relational operators apply it: "" is 0, any other      *)
(* string over the letters above is NaN, null is 0, undefined is NaN.      *)
ToNumber(v) ==
    CASE v.k \in {"number", "-Infinity"} -> v
      [] v.k = "null" -> Num(0)
      [] v.k = "string" -> IF v.s = << >> THEN Num(0) ELSE NaN
      [] OTHER -> NaN

Sign(n) == IF n < 0 THEN -1 ELSE IF n > 0 THEN 1 ELSE 0

(* The sign of x - y for numbers that are not NaN; -Infinity - -Infinity   *)
(* is NaN, which sort reads as 0.                                          *)
MinusSign(x, y) ==
    CASE x.k = "-Infinity" /\ y.k = "-Infinity" -> 0
      [] x.k = "-Infinity" /\ y.k # "-Infinity" -> -1
      [] x.k # "-Infinity" /\ y.k = "-Infinity" -> 1
      [] OTHER -> Sign(x.n - y.n)

(* s < t on strings: by code units, a proper prefix first.                 *)
RECURSIVE StringLess(_, _)
StringLess(s, t) ==
    IF t = << >> THEN FALSE
    ELSE IF s = << >> THEN TRUE
    ELSE IF Head(s) = Head(t) THEN StringLess(Tail(s), Tail(t))
    ELSE CodeUnitRank(Head(s)) < CodeUnitRank(Head(t))

(* a < b: two strings by code units, anything else as numbers, and false   *)
(* when either number is NaN.                                              *)
LessThan(a, b) ==
    IF a.k = "string" /\ b.k = "string" THEN StringLess(a.s, b.s)
    ELSE LET x == ToNumber(a)
             y == ToNumber(b)
         IN x.k # "NaN" /\ y.k # "NaN" /\ MinusSign(x, y) < 0

LowerChar(ch) ==
    IF ch \in Range(UpperChars)
    THEN LowerChars[CHOOSE i \in DOMAIN UpperChars : UpperChars[i] = ch]
    ELSE ch

(* String.prototype.toLowerCase and String.prototype.includes.             *)
ToLowerCase(s) == [i \in DOMAIN s |-> LowerChar(s[i])]
Includes(s, t) == \E i \in 0..(Len(s) - Len(t)) : SubSeq(s, i + 1, i + Len(t)) = t

----------------------------------------------------------------------------
(* DetailedMetricsTable.js:13-68, the effect that computes the rows.       *)

(* :16-22, rawData.                                                        *)
RawData(td, tab) == td[tab]

(* :29-31, searchFields.                                                   *)
SearchFields(tab) ==
    IF tab = "countries" THEN <<"country_name", "country_code", "region">>
    ELSE <<"industry_name", "sector", "industry_code">>

(* Faulty variant: the term is compared as typed.                          *)
FieldMatchesAsTyped(field, term) ==
    Truthy(field) /\ Includes(ToLowerCase(field.s), term)

(* :33-35, field && String(field).toLowerCase().includes(                  *)
(* searchTerm.toLowerCase()); the fields searched are strings, which       *)
(* String() returns as they are.                                           *)
FieldMatches(field, term) ==
    Truthy(field) /\ Includes(ToLowerCase(field.s), ToLowerCase(term))

(* :27-36, the predicate of rawData.filter.                                *)
ItemMatches(item, tab, term) ==
    \E i \in DOMAIN SearchFields(tab) : FieldMatches(Get(item, SearchFields(tab)[i]), term)

Filter(raw, tab, term) ==
    LET Keep(item) == ItemMatches(item, tab, term) IN SelectSeq(raw, Keep)

(* :41-64, the comparator, as the sign sort reads from it.                 *)
Compare(a, b, sc) ==
    LET aValue == IF Get(a, sc.key) # Undefined THEN Get(a, sc.key) ELSE NegInfinity
        bValue == IF Get(b, sc.key) # Undefined THEN Get(b, sc.key) ELSE NegInfinity
        aNum == ParseFloat(aValue)
        bNum == ParseFloat(bValue)
    IN IF aNum.k # "NaN" /\ bNum.k # "NaN"
       THEN (IF sc.direction = "ascending" THEN MinusSign(aNum, bNum)
             ELSE MinusSign(bNum, aNum))
       ELSE IF LessThan(aValue, bValue)
       THEN (IF sc.direction = "ascending" THEN -1 ELSE 1)
       ELSE IF LessThan(bValue, aValue)
       THEN (IF sc.direction = "ascending" THEN 1 ELSE -1)
       ELSE 0

(* Array.prototype.sort.  The comparator is consistent on the records     *)
(* above (every field holds one kind of value), and for a consistent       *)
(* comparator ECMAScript 23.1.3.30 fixes the result: the sorted order that *)
(* keeps ties in the order they had in the array.                          *)

(* Faulty variant: an element is put before the elements it ties with.     *)
InsertBeforeTies(sorted, x, sc) ==
    LET after == {i \in DOMAIN sorted : Compare(x, sorted[i], sc) <= 0}
        k == IF after = {} THEN Len(sorted) + 1
             ELSE CHOOSE i \in after : \A j \in after : i <= j
    IN SubSeq(sorted, 1, k - 1) \o <<x>> \o SubSeq(sorted, k, Len(sorted))

(* x goes before the first element it is below, so after its ties.         *)
InsertStable(sorted, x, sc) ==
    LET after == {i \in DOMAIN sorted : Compare(x, sorted[i], sc) < 0}
        k == IF after = {} THEN Len(sorted) + 1
             ELSE CHOOSE i \in after : \A j \in after : i <= j
    IN SubSeq(sorted, 1, k - 1) \o <<x>> \o SubSeq(sorted, k, Len(sorted))

RECURSIVE StableSort(_, _)
StableSort(seq, sc) ==
    IF seq = << >> THEN << >>
    ELSE InsertStable(StableSort(SubSeq(seq, 1, Len(seq) - 1), sc), seq[Len(seq)], sc)

(* :24-67.  Without a search term filtered is rawData itself, the array    *)
(* held by tableData, and filtered.sort orders that array; with a term it  *)
(* is the new array filter returned.  The outcome is the array given to    *)
(* setTableRows and tableData as the effect leaves it.                     *)
TableEffect(td, tab, term, sc) ==
    IF term # << >>
    THEN [rows |-> StableSort(Filter(RawData(td, tab), tab, term), sc), tableData |-> td]
    ELSE LET sorted == StableSort(RawData(td, tab), sc) IN
         [rows |-> sorted, tableData |-> [td EXCEPT ![tab] = sorted]]

RunTableEffect(td, tab, term, sc) ==
    /\ tableRows' = TableEffect(td, tab, term, sc).rows
    /\ tableData' = TableEffect(td, tab, term, sc).tableData

----------------------------------------------------------------------------
(* The map (GlobalHeatmap of HistoricalTrends.js:181-312).  A coordinate   *)
(* is a whole number of ten-thousandths of a degree, the precision of the  *)
(* table below.                                                            *)
Degree == 10000

(* HistoricalTrends.js:134-150.                                            *)
countryCoordinates ==
    (<<"U", "n", "i", "t", "e", "d", " ", "S", "t", "a", "t", "e", "s">>
        :> [lat |-> Num(370902), lng |-> Num(-957129)]) @@
    (<<"C", "h", "i", "n", "a">>
        :> [lat |-> Num(358617), lng |-> Num(1041954)]) @@
    (<<"E", "u", "r", "o", "p", "e", "a", "n", " ", "U", "n", "i", "o", "n">>
        :> [lat |-> Num(508503), lng |-> Num(43517)]) @@
    (<<"C", "a", "n", "a", "d", "a">>
        :> [lat |-> Num(561304), lng |-> Num(-1063468)]) @@
    (<<"M", "e", "x", "i", "c", "o">>
        :> [lat |-> Num(236345), lng |-> Num(-1025528)]) @@
    (<<"J", "a", "p", "a", "n">>
        :> [lat |-> Num(362048), lng |-> Num(1382529)]) @@
    (<<"S", "o", "u", "t", "h", " ", "K", "o", "r", "e", "a">>
        :> [lat |-> Num(359078), lng |-> Num(1277669)]) @@
    (<<"U", "n", "i", "t", "e", "d", " ", "K", "i", "n", "g", "d", "o", "m">>
        :> [lat |-> Num(553781), lng |-> Num(-34360)]) @@
    (<<"B", "r", "a", "z", "i", "l">>
        :> [lat |-> Num(-142350), lng |-> Num(-519253)]) @@
    (<<"I", "n", "d", "i", "a">>
        :> [lat |-> Num(205937), lng |-> Num(789629)]) @@
    (<<"A", "u", "s", "t", "r", "a", "l", "i", "a">>
        :> [lat |-> Num(-252744), lng |-> Num(1337751)]) @@
    (<<"V", "i", "e", "t", "n", "a", "m">>
        :> [lat |-> Num(140583), lng |-> Num(1082772)]) @@
    (<<"T", "a", "i", "w", "a", "n">>
        :> [lat |-> Num(236978), lng |-> Num(1209605)]) @@
    (<<"R", "u", "s", "s", "i", "a">>
        :> [lat |-> Num(615240), lng |-> Num(1053188)]) @@
    (<<"G", "e", "r", "m", "a", "n", "y">>
        :> [lat |-> Num(511657), lng |-> Num(104515)])

(* The points a response puts on the map: with or without coordinates, of  *)
(* either sign, zero, beyond the poles or textual; named by country_name   *)
(* or name, in the table above or not; with a magnitude under one of its   *)
(* three names, under two of them, textual, or under none.                 *)
PointPool ==
    {[country_code |-> Str(<<"C", "N">>), country_name |-> Str(<<"C", "h", "i", "n", "a">>),
      lat |-> Num(0), lng |-> Num(100 * Degree),
      value |-> Num(0), tariff_impact |-> Num(7)],
     [country_code |-> Str(<<"I", "N">>), country_name |-> Str(<<"I", "n", "d", "i", "a">>),
      tariff_impact |-> Num(7)],
     [country_code |-> Str(<<"J", "P">>), name |-> Str(<<"J", "a", "p", "a", "n">>),
      lat |-> Num(36 * Degree), lng |-> Num(138 * Degree), value |-> Num(3)],
     [country_code |-> Str(<<"U", "S">>), country_name |-> Str(<<"U", "s", "a">>)],
     [country_code |-> Str(<<"C", "A">>), country_name |-> Str(<<"C", "a", "n", "a", "d", "a">>),
      lat |-> Num(200 * Degree), lng |-> Num(-10 * Degree), trade_deficit |-> Num(-4)],
     [country_code |-> Str(<<"B", "R">>), name |-> Str(<<"B", "r", "a", "z", "i", "l">>),
      lat |-> Str(<<"S">>), lng |-> Str(<<"W">>), value |-> Str(<<"n", "a">>),
      trade_deficit |-> Num(2)]}

(* The heatmap collections a response can carry.                           *)
Heatmaps == Lists(PointPool, MaxRows)

(* isNaN(v): whether ToNumber(v) is NaN.                                   *)
IsNaN(v) == ToNumber(v).k = "NaN"

(* HistoricalTrends.js:195.                                                *)
CountryName(country) ==
    Or(Get(country, "country_name"), Or(Get(country, "name"), Str(<< >>)))

(* HistoricalTrends.js:198, the test a point passes to keep what it        *)
(* carries.                                                                *)
HasCoordinates(country) ==
    /\ Truthy(Get(country, "lat")) /\ Truthy(Get(country, "lng"))
    /\ ~IsNaN(Get(country, "lat")) /\ ~IsNaN(Get(country, "lng"))

(* HistoricalTrends.js:203, countryCoordinates[countryName] || { lat: 0,   *)
(* lng: 0 }.                                                               *)
LookUp(countryName) ==
    IF countryName.s \in DOMAIN countryCoordinates THEN countryCoordinates[countryName.s]
    ELSE [lat |-> Num(0), lng |-> Num(0)]

(* { ...country, lat, lng }.                                               *)
WithCoordinates(country, coords) ==
    [f \in DOMAIN country \cup {"lat", "lng"} |->
        IF f \in {"lat", "lng"} THEN coords[f] ELSE country[f]]

(* HistoricalTrends.js:193-210, the function mapped over heatmapData.      *)
AddCoordinates(country) ==
    IF HasCoordinates(country) THEN country
    ELSE WithCoordinates(country, LookUp(CountryName(country)))

(* HistoricalTrends.js:193-211.                                            *)
ProcessedCountries(heatmap) == [i \in DOMAIN heatmap |-> AddCoordinates(heatmap[i])]

(* HistoricalTrends.js:222 and :261, parseFloat(c.value || c.tariff_impact *)
(* || c.trade_deficit || 0).                                               *)
Magnitude(country) ==
    ParseFloat(Or(Get(country, "value"),
                  Or(Get(country, "tariff_impact"),
                     Or(Get(country, "trade_deficit"), Num(0)))))

(* HistoricalTrends.js:273, where the circle of a point is put.            *)
Center(country) == <<Get(country, "lat"), Get(country, "lng")>>

----------------------------------------------------------------------------
(* The state the views start from: the part_001 provider mounted, its      *)
(* first response not yet in.                                              *)
ViewInit ==
    /\ provider = "part_001"
    /\ lifecycle = "mounted"
    /\ now = 0
    /\ loading = TRUE
    /\ error = NULL
    /\ dashboardData = NODATA
    /\ heatmapData = << >>
    /\ sectorData = << >>
    /\ timeSeriesData = EMPTY
    /\ tableData = EmptyTable
    /\ updateStatus = [isUpdating |-> FALSE, lastUpdated |-> NoTime,
                       message |-> NULL, error |-> NULL]
    /\ lastUpdated = NoTime
    /\ isUpdating = FALSE
    /\ isRefreshing = FALSE
    /\ cycles = << >>
    /\ nextCycle = 1
    /\ updateRequests = 0
    /\ nUpdates = 0
    /\ timeouts = << >>
    /\ intervalDue = NoTime
    /\ ViewHooks

(* part_001:30-37 and :55-57: a fetch cycle ends with a composite response *)
(* that carries the map, the sectors and the table; the table's effect     *)
(* runs on the new tableData and the map's on the new heatmapData.         *)
SnapshotArrives(d) ==
    /\ loading' = FALSE
    /\ heatmapData' = d.heatmap_data
    /\ countriesWithCoords' = ProcessedCountries(d.heatmap_data)
    /\ UNCHANGED colorScale
    /\ sectorData' = d.sector_data
    /\ fetchedTable' = d.detail_table
    /\ RunTableEffect(d.detail_table, activeTab, searchTerm, sortConfig)
    /\ UNCHANGED <<selectedCountry, selectedIndustry, activeTab, searchTerm, sortConfig,
                   lastClick>>
    /\ UNCHANGED <<provider, lifecycle, now, error, dashboardData, timeSeriesData,
                   updateStatus, lastUpdated, dashVars, asyncVars>>

(* DetailedMetricsTable.js:79-85: the tabs and the search box are shown    *)
(* once the provider is neither loading nor in error and the table has     *)
(* records.                                                                *)
TableShown ==
    /\ ~loading /\ error = NULL
    /\ Len(tableData.countries) > 0 \/ Len(tableData.industries) > 0

(* DetailedMetricsTable.js:339, onChange of the search box.                *)
ChangeSearchTerm(term) ==
    /\ TableShown
    /\ term \in Queries /\ term # searchTerm
    /\ searchTerm' = term
    /\ RunTableEffect(tableData, activeTab, term, sortConfig)
    /\ UNCHANGED <<selectedCountry, selectedIndustry, activeTab, sortConfig,
                   fetchedTable, lastClick>>
    /\ UNCHANGED <<provider, lifecycle, now, loading, error, dashboardData, heatmapData,
                   sectorData, timeSeriesData, updateStatus, lastUpdated, dashVars,
                   asyncVars>>
    /\ UNCHANGED mapVars

(* DetailedMetricsTable.js:100-144 and :190-254, the column headers that   *)
(* carry a sort request (the name and the tariff of each tab).             *)
SortHeaders(tab) ==
    IF tab = "countries" THEN {"country_name", "effective_tariff"}
    ELSE {"industry_name", "effective_tariff"}

(* DetailedMetricsTable.js:71-77, requestSort.                             *)
NextSortConfig(sc, key) ==
    [key |-> key,
     direction |-> IF sc.key = key /\ sc.direction = "ascending" THEN "descending"
                   ELSE "ascending"]

(* A click on a column header; the headers are shown with the rows         *)
(* (DetailedMetricsTable.js:88).                                           *)
RequestSort(key) ==
    /\ TableShown /\ Len(tableRows) > 0
    /\ key \in SortHeaders(activeTab)
    /\ sortConfig' = NextSortConfig(sortConfig, key)
    /\ RunTableEffect(tableData, activeTab, searchTerm, NextSortConfig(sortConfig, key))
    /\ UNCHANGED <<selectedCountry, selectedIndustry, activeTab, searchTerm,
                   fetchedTable, lastClick>>
    /\ UNCHANGED <<provider, lifecycle, now, loading, error, dashboardData, heatmapData,
                   sectorData, timeSeriesData, updateStatus, lastUpdated, dashVars,
                   asyncVars>>
    /\ UNCHANGED mapVars

(* DetailedMetricsTable.js:318 and :328, the tab buttons.                  *)
SetActiveTab(tab) ==
    /\ TableShown
    /\ tab \in Tabs /\ tab # activeTab
    /\ activeTab' = tab
    /\ RunTableEffect(tableData, tab, searchTerm, sortConfig)
    /\ UNCHANGED <<selectedCountry, selectedIndustry, searchTerm, sortConfig,
                   fetchedTable, lastClick>>
    /\ UNCHANGED <<provider, lifecycle, now, loading, error, dashboardData, heatmapData,
                   sectorData, timeSeriesData, updateStatus, lastUpdated, dashVars,
                   asyncVars>>
    /\ UNCHANGED mapVars

TableNext ==
    \/ \E d \in Snapshots : SnapshotArrives(d)
    \/ \E term \in Queries : ChangeSearchTerm(term)
    \/ \E key \in SortHeaders(activeTab) : RequestSort(key)
    \/ \E tab \in Tabs : SetActiveTab(tab)

(* The table under every sequence of responses, searches, sort requests    *)
(* and tab changes.                                                        *)
TableSpec == ViewInit /\ [][TableNext]_vars

----------------------------------------------------------------------------
(* Selection.                                                              *)

(* Faulty variant: a click always selects.                                 *)
ToggleAlwaysSelects(selected, key) == key

(* selected === key ? null : key.                                          *)
Toggle(selected, key) == IF selected = key THEN JsNull ELSE key

Clicked(surface, selected, key) == [surface |-> surface, cleared |-> selected = key]

(* DetailedMetricsTable.js:260.                                            *)
DisplayName(industry) ==
    Or(Get(industry, "industry_name"),
       Or(Get(industry, "name"), Or(Get(industry, "sector"), Str(<< >>))))

(* GlobalHeatmap.js:252, the name of a slice of the pie chart.             *)
SliceName(sector) == Or(Get(sector, "sector"), Get(sector, "SECTOR"))

(* HistoricalTrends.js:198-200 and :258: a point that carries coordinates  *)
(* keeps them and gets a circle unless one of them is 0 or NaN.            *)
CircleShown(country) == Truthy(Get(country, "lat")) /\ Truthy(Get(country, "lng"))

(* HistoricalTrends.js:216-218, GlobalHeatmap.js:242-248.                  *)
ChartShown(data) == ~loading /\ error = NULL /\ Len(data) > 0

(* DetailedMetricsTable.js:152-154, a click on a row of the country tab.   *)
ClickCountryRow(i) ==
    /\ TableShown /\ activeTab = "countries"
    /\ i \in DOMAIN tableRows
    /\ LET key == Get(tableRows[i], "country_code") IN
        /\ selectedCountry' = Toggle(selectedCountry, key)
        /\ lastClick' = Clicked("table", selectedCountry, key)
    /\ UNCHANGED <<selectedIndustry, activeTab, searchTerm, sortConfig, tableRows,
                   fetchedTable>>
    /\ UNCHANGED <<provider, lifecycle, now, provVars, dashVars, asyncVars>>
    /\ UNCHANGED mapVars

(* DetailedMetricsTable.js:266-268, a click on a row of the industry tab.  *)
ClickIndustryRow(i) ==
    /\ TableShown /\ activeTab = "industries"
    /\ i \in DOMAIN tableRows
    /\ LET key == DisplayName(tableRows[i]) IN
        /\ selectedIndustry' = Toggle(selectedIndustry, key)
        /\ lastClick' = Clicked("table", selectedIndustry, key)
    /\ UNCHANGED <<selectedCountry, activeTab, searchTerm, sortConfig, tableRows,
                   fetchedTable>>
    /\ UNCHANGED <<provider, lifecycle, now, provVars, dashVars, asyncVars>>
    /\ UNCHANGED mapVars

(* HistoricalTrends.js:281-285, a click on a circle of the map.            *)
ClickCircle(i) ==
    /\ ChartShown(heatmapData)
    /\ i \in DOMAIN heatmapData /\ CircleShown(heatmapData[i])
    /\ LET key == Get(heatmapData[i], "country_code") IN
        /\ selectedCountry' = Toggle(selectedCountry, key)
        /\ lastClick' = Clicked("map", selectedCountry, key)
    /\ UNCHANGED <<selectedIndustry, activeTab, searchTerm, sortConfig, tableRows,
                   fetchedTable>>
    /\ UNCHANGED <<provider, lifecycle, now, provVars, dashVars, asyncVars>>
    /\ UNCHANGED mapVars

(* GlobalHeatmap.js:291-294, a click on a slice of the pie chart.          *)
ClickSlice(i) ==
    /\ ChartShown(sectorData)
    /\ i \in DOMAIN sectorData
    /\ LET key == SliceName(sectorData[i]) IN
        /\ selectedIndustry' = Toggle(selectedIndustry, key)
        /\ lastClick' = Clicked("pie", selectedIndustry, key)
    /\ UNCHANGED <<selectedCountry, activeTab, searchTerm, sortConfig, tableRows,
                   fetchedTable>>
    /\ UNCHANGED <<provider, lifecycle, now, provVars, dashVars, asyncVars>>
    /\ UNCHANGED mapVars

SelNext ==
    \/ \E d \in Snapshots : SnapshotArrives(d)
    \/ \E tab \in Tabs : SetActiveTab(tab)
    \/ \E i \in 1..MaxRows : ClickCountryRow(i)
    \/ \E i \in 1..MaxRows : ClickIndustryRow(i)
    \/ \E i \in 1..MaxRows : ClickCircle(i)
    \/ \E i \in 1..MaxRows : ClickSlice(i)

(* The selection under every sequence of responses and clicks, the table   *)
(* in its initial order and without a search term.                         *)
SelSpec == ViewInit /\ [][SelNext]_vars

----------------------------------------------------------------------------
(* The colour scales: getColorScale of HistoricalTrends.js:229-238 and of  *)
(* part_000:58-68.  The arguments are whole numbers or NaN; a quotient is  *)
(* the fraction num/den with den > 0, an infinity or NaN.                  *)
MaxScale == 2                  \* the largest min and max of a call

Fraction(num, den) == [k |-> "number", num |-> num, den |-> den]
FracNaN == [k |-> "NaN", num |-> 0, den |-> 1]
FracInfinity == [k |-> "Infinity", num |-> 0, den |-> 1]
FracNegInfinity == [k |-> "-Infinity", num |-> 0, den |-> 1]

(* x - y.                                                                  *)
Minus(x, y) == IF x.k = "NaN" \/ y.k = "NaN" THEN NaN ELSE Num(x.n - y.n)

(* x / y: by zero an infinity of the sign of x, and NaN for 0 / 0.         *)
Divide(x, y) ==
    IF x.k = "NaN" \/ y.k = "NaN" THEN FracNaN
    ELSE IF y.n = 0
    THEN (IF x.n > 0 THEN FracInfinity ELSE IF x.n < 0 THEN FracNegInfinity ELSE FracNaN)
    ELSE Fraction(x.n * Sign(y.n), y.n * Sign(y.n))

(* Math.min(1, q) and Math.max(0, q): NaN when q is.                       *)
MathMinOne(q) ==
    CASE q.k = "NaN" -> FracNaN
      [] q.k = "Infinity" -> Fraction(1, 1)
      [] q.k = "-Infinity" -> q
      [] OTHER -> IF q.num > q.den THEN Fraction(1, 1) ELSE q
MathMaxZero(q) ==
    CASE q.k = "NaN" -> FracNaN
      [] q.k = "-Infinity" -> Fraction(0, 1)
      [] q.k = "Infinity" -> q
      [] OTHER -> IF q.num < 0 THEN Fraction(0, 1) ELSE q

(* Math.round(q * 255) for q in 0..1: halves go up.                        *)
RoundTimes255(q) ==
    IF q.k = "NaN" THEN NaN ELSE Num((2 * 255 * q.num + q.den) \div (2 * q.den))
OneMinus(q) == IF q.k = "NaN" THEN q ELSE Fraction(q.den - q.num, q.den)

(* `rgb(${r}, 0, ${b})`, with what it was computed from.                   *)
Rgb(normalized) ==
    [normalized |-> normalized,
     r |-> RoundTimes255(normalized), b |-> RoundTimes255(OneMinus(normalized))]

(* Faulty variant: the quotient is not clamped.                            *)
NormalizedUnclamped(value, min, max) == Divide(Minus(value, min), Minus(max, min))

(* part_000:60.                                                            *)
Normalized(value, min, max) ==
    MathMaxZero(MathMinOne(Divide(Minus(value, min), Minus(max, min))))

(* HistoricalTrends.js:231, with (max - min || 1).                         *)
NormalizedOrOne(value, min, max) ==
    MathMaxZero(MathMinOne(Divide(Minus(value, min), Or(Minus(max, min), Num(1)))))

(* The values, and the ends of the scale, a call is made with.             *)
ScaleEnds == {Num(n) : n \in 0..MaxScale}
ScaleValues == {Num(n) : n \in -1..(MaxScale + 1)} \cup {NaN}

(* part_000:58-68, a call of the exported getColorScale.                   *)
GetColorScale(value, min, max) ==
    /\ colorScale' = [impl |-> "part_000", value |-> value, min |-> min, max |-> max,
                      color |-> Rgb(Normalized(value, min, max))]
    /\ UNCHANGED countriesWithCoords
    /\ UNCHANGED <<provider, lifecycle, now, provVars, dashVars, asyncVars, viewVars>>

(* HistoricalTrends.js:229-238, a call of the getColorScale of the map.    *)
GetColorScaleOfMap(value, min, max) ==
    /\ colorScale' = [impl |-> "HistoricalTrends", value |-> value, min |-> min,
                      max |-> max, color |-> Rgb(NormalizedOrOne(value, min, max))]
    /\ UNCHANGED countriesWithCoords
    /\ UNCHANGED <<provider, lifecycle, now, provVars, dashVars, asyncVars, viewVars>>

ScaleNext ==
    \/ \E value \in ScaleValues : \E min \in ScaleEnds : \E max \in ScaleEnds :
          GetColorScale(value, min, max)
    \/ \E value \in ScaleValues : \E min \in ScaleEnds : \E max \in ScaleEnds :
          GetColorScaleOfMap(value, min, max)

(* The colour scales under every call.                                     *)
ScaleSpec == ViewInit /\ [][ScaleNext]_vars

----------------------------------------------------------------------------
(* The map under every sequence of responses: each carries a heatmap and   *)
(* neither sectors nor a table.                                            *)
MapSnapshot(h) ==
    [detail_table |-> EmptyTable, heatmap_data |-> h, sector_data |-> << >>]

MapNext == \E h \in Heatmaps : SnapshotArrives(MapSnapshot(h))

MapSpec == ViewInit /\ [][MapNext]_vars

----------------------------------------------------------------------------
(* Properties.                                                             *)

C2_SuccessSchedulesOneRefetch ==
    [][\A resp \in UpdateResponses :
          (UpdateSettles(resp) /\ resp.status = "ok") =>
              /\ Len(timeouts') = Len(timeouts) + 1
              /\ timeouts'[Len(timeouts')] = [setAt |-> now, delay |-> RefetchDelayMs]
              /\ UNCHANGED <<cycles, nextCycle>>]_vars

(* C3, as claimed: at most one deferred re-fetch is pending at any time.   *)
C3_AtMostOneDeferredRefetch == Len(timeouts) <= 1

(* C4: a failed update request records the error message on updateStatus   *)
(* and resets isUpdating; and, every update request being answered in the  *)
(* end, a provider that is updating leaves that state (for as long as it   *)
(* is mounted: an unmounted provider has no state).                        *)
C4_FailureLeavesUpdating ==
    /\ [][\A resp \in UpdateResponses :
             (UpdateSettles(resp) /\ ApiTriggerUpdate(resp).threw /\ Alive) =>
                 /\ updateStatus'.error = UPDATE_ERROR
                 /\ ~updateStatus'.isUpdating]_vars
    /\ (Alive /\ updateStatus.isUpdating) ~> (~updateStatus.isUpdating \/ ~Alive)

(* A failed update has been recorded and the provider is idle again.       *)
C4_Witness ==
    /\ lifecycle = "mounted"
    /\ nUpdates >= 1 /\ updateRequests = 0
    /\ updateStatus.error = UPDATE_ERROR /\ ~updateStatus.isUpdating

(* C5: lastUpdated (updateStatus.lastUpdated in part_001, lastUpdated in   *)
(* TariffContext.js) never moves to an earlier time and, once set, never   *)
(* returns to none.                                                        *)
C5_LastUpdatedMonotonic ==
    [][/\ updateStatus'.lastUpdated >= updateStatus.lastUpdated
       /\ updateStatus.lastUpdated # NoTime => updateStatus'.lastUpdated # NoTime
       /\ lastUpdated' >= lastUpdated
       /\ lastUpdated # NoTime => lastUpdated' # NoTime]_vars

(* A second update has been triggered with lastUpdated already set at a    *)
(* later time than the mount.                                              *)
C5_Witness ==
    /\ nUpdates = 2 /\ updateRequests = 1
    /\ updateStatus.isUpdating /\ updateStatus.lastUpdated > 0

(* The collection of the snapshot that sub-collection f of the composite   *)
(* is stored in, in the next state.                                        *)
CollectionAfter(f) ==
    CASE f = "heatmap_data" -> heatmapData'
      [] f = "sector_data" -> sectorData'
      [] f = "time_series" -> timeSeriesData'
      [] f = "detail_table" -> tableData'

(* C6: a fetch cycle answered with a composite that holds all four         *)
(* sub-collections completes on it, sending none of the four constituent   *)
(* fetches, and the four collections of the snapshot are those of that     *)
(* composite.                                                              *)
C6_FullCompositeUsedDirectly ==
    [][\A c \in 1..MaxCycles :
          (Alive /\ DashboardSettles(c, HttpObject(Composite(c, Fields)))) =>
              /\ c \notin DOMAIN cycles'
              /\ dashboardData' = Composite(c, Fields)
              /\ \A f \in Fields : CollectionAfter(f) = FromDashboard(c)]_vars

(* A second cycle has replaced the snapshot by its full composite.         *)
C6_Witness ==
    /\ provider = "part_001" /\ lifecycle = "mounted"
    /\ dashboardData = Composite(2, Fields)
    /\ heatmapData = FromDashboard(2) /\ sectorData = FromDashboard(2)
    /\ timeSeriesData = FromDashboard(2) /\ tableData = FromDashboard(2)
    /\ 2 \notin InFlight

(* C7, as claimed: a fetch cycle answered with a composite that lacks some *)
(* sub-collections applies the ones it holds and goes on to fetch the      *)
(* missing ones from their endpoints.                                      *)
C7_MissingOnesFetched ==
    [][\A c \in 1..MaxCycles : \A S \in CompositeShapes \ {Fields} :
          (Alive /\ DashboardSettles(c, HttpObject(Composite(c, S)))) =>
              /\ \A f \in S : CollectionAfter(f) = FromDashboard(c)
              /\ c \in DOMAIN cycles' /\ cycles'[c].pc = "all"]_vars

(* C8, as claimed: when the constituent fetches of a cycle have settled,   *)
(* each collection whose fetch succeeded is the one fetched and each       *)
(* collection whose fetch failed is empty.                                 *)
C8_PartialResultsApplied ==
    [][\A c \in 1..MaxCycles : \A r \in ConstituentResults :
          (Alive /\ ConstituentsSettle(c, r)) =>
              \A f \in Fields :
                  CollectionAfter(f) = IF r[f] = "data" THEN FromEndpoint(c) ELSE EMPTY]_vars

(* The step in which fetch cycle c fails.                                  *)
CycleFails(c) ==
    \/ \E resp \in DashboardResponses(c) : ApiGet(resp).threw /\ DashboardSettles(c, resp)
    \/ \E r \in ConstituentResults :
          (\E f \in Fields : r[f] = "rejected") /\ ConstituentsSettle(c, r)
    \/ \E resp \in RefreshResponses : ApiRefreshData(resp).threw /\ RefreshSettles(c, resp)
    \/ \E resp \in DashboardResponses(c) : ApiGet(resp).threw /\ SnapshotSettles(c, resp)

(* C9, as claimed, for a cycle that no other cycle has overlapped: when it *)
(* fails an error message is recorded, loading is false, and every part of *)
(* the snapshot has the value it had when the cycle started.               *)
C9_FailureKeepsSnapshot ==
    [][\A c \in 1..MaxCycles :
          (Alive /\ CycleFails(c) /\ cycles[c].alone) =>
              /\ error' # NULL
              /\ loading' = FALSE
              /\ Snapshot' = cycles[c].before]_vars

(* C10: loadDashboardData(true) sends the refresh request first and the    *)
(* snapshot read only once the refresh has completed;                      *)
(* loadDashboardData(false) sends the snapshot read at once and no         *)
(* refresh request.                                                        *)
C10_RefreshBeforeRead ==
    [][\A c \in 1..MaxCycles :
          /\ (c \notin DOMAIN cycles /\ c \in DOMAIN cycles') =>
                cycles'[c].pc = IF cycles'[c].force THEN "refresh" ELSE "dashboard"
          /\ (c \in DOMAIN cycles /\ c \in DOMAIN cycles'
                /\ cycles[c].pc = "refresh" /\ cycles'[c].pc # "refresh") =>
                /\ cycles'[c].pc = "dashboard"
                /\ RefreshSettles(c, HttpObject(NULL))
          /\ (c \in DOMAIN cycles /\ cycles[c].pc = "dashboard" /\ c \in DOMAIN cycles') =>
                cycles'[c].pc # "refresh"]_vars

(* A forced cycle reads the snapshot, its refresh request completed.       *)
C10_Witness ==
    /\ provider = "TariffContext"
    /\ \E c \in InFlight : cycles[c].force /\ cycles[c].pc = "dashboard"

(* C11: while the part_001 provider is mounted its interval is armed, due  *)
(* one period after the mount and one period after each firing; a firing   *)
(* starts a fetch cycle that forces no refresh; the teardown disarms the   *)
(* interval, and no poll fires on a provider that is not mounted.          *)
C11_PollOnlyWhileMounted ==
    [][/\ MountProvider => intervalDue' = now + PollPeriodMs
       /\ PollFires =>
             /\ lifecycle = "mounted"
             /\ now >= intervalDue
             /\ intervalDue' = intervalDue + PollPeriodMs
             /\ DOMAIN cycles' = DOMAIN cycles \cup {nextCycle}
             /\ ~cycles'[nextCycle].force
       /\ (provider = "part_001" /\ lifecycle' = "mounted") => intervalDue' # NoTime
       /\ lifecycle' = "unmounted" => intervalDue' = NoTime]_vars

(* The poll has fired once (cycle 2 of a provider that was never updated   *)
(* comes from the interval), the provider was then torn down, and the      *)
(* interval is disarmed.                                                   *)
C11_Witness ==
    /\ provider = "part_001" /\ lifecycle = "unmounted"
    /\ nextCycle >= 3 /\ nUpdates = 0
    /\ now >= PollPeriodMs /\ intervalDue = NoTime

(* C12, as claimed: the teardown cancels the pending delayed re-fetch, so  *)
(* the timer of an update that succeeded on the mounted provider (its      *)
(* success is on updateStatus) does not fire, and start a fetch cycle,     *)
(* once the provider has been torn down.                                   *)
C12_TeardownCancelsRefetch ==
    [][\A i \in 1..MaxUpdates :
          (/\ TimeoutFires(i)
           /\ updateStatus.lastUpdated = timeouts[i].setAt
           /\ updateStatus.error = NULL /\ ~updateStatus.isUpdating)
              => lifecycle # "unmounted"]_vars

C14_SuccessNeverRecordedAsError ==
    [][Alive =>
          /\ \A resp \in UpdateResponses :
                (UpdateSettles(resp) /\ resp.status = "ok") =>
                    updateStatus'.error = NULL
          /\ \A c \in 1..MaxCycles : \A resp \in DashboardResponses(c) :
                ((DashboardSettles(c, resp) \/ SnapshotSettles(c, resp))
                    /\ resp.status = "ok") => error' \in {error, NULL}]_vars

(* C15: on every surface a click on the entity that is selected clears the *)
(* selection, and a click on any other entity, or with nothing selected,   *)
(* selects the entity clicked; the selection of the other kind is left     *)
(* alone.  An entity is known by what the surface reads from it: the       *)
(* country code, the displayed industry name, the name of the slice.       *)
C15_ClickToggles ==
    [][\A i \in 1..MaxRows :
          /\ ClickCountryRow(i) =>
                /\ selectedCountry = tableRows[i].country_code => selectedCountry' = JsNull
                /\ selectedCountry # tableRows[i].country_code =>
                      selectedCountry' = tableRows[i].country_code
                /\ UNCHANGED selectedIndustry
          /\ ClickCircle(i) =>
                /\ selectedCountry = heatmapData[i].country_code => selectedCountry' = JsNull
                /\ selectedCountry # heatmapData[i].country_code =>
                      selectedCountry' = heatmapData[i].country_code
                /\ UNCHANGED selectedIndustry
          /\ ClickIndustryRow(i) =>
                LET name == IF "industry_name" \in DOMAIN tableRows[i]
                            THEN tableRows[i].industry_name ELSE tableRows[i].sector
                IN /\ selectedIndustry = name => selectedIndustry' = JsNull
                   /\ selectedIndustry # name => selectedIndustry' = name
                   /\ UNCHANGED selectedCountry
          /\ ClickSlice(i) =>
                LET name == IF "sector" \in DOMAIN sectorData[i]
                            THEN sectorData[i].sector ELSE sectorData[i].SECTOR
                IN /\ selectedIndustry = name => selectedIndustry' = JsNull
                   /\ selectedIndustry # name => selectedIndustry' = name
                   /\ UNCHANGED selectedCountry]_vars

(* A country is selected, and the last click, on the slice that was        *)
(* selected, has cleared the industry.                                     *)
C15_Witness ==
    /\ lastClick.surface = "pie" /\ lastClick.cleared
    /\ selectedIndustry = JsNull /\ selectedCountry # JsNull

(* C16, as claimed: the country selected, if any, is a country of the      *)
(* current snapshot (of its table or of its map), and the industry         *)
(* selected, if any, an industry of it (of its table or of its sectors).   *)
C16_SelectionInSnapshot ==
    /\ \/ selectedCountry = JsNull
       \/ \E c \in Range(tableData.countries) \cup Range(heatmapData) :
             c.country_code = selectedCountry
    /\ \/ selectedIndustry = JsNull
       \/ \E x \in Range(tableData.industries) : DisplayName(x) = selectedIndustry
       \/ \E x \in Range(sectorData) : SliceName(x) = selectedIndustry

(* C17: the rows are the records of the active tab that the search term    *)
(* retains, each once: all of them when the term is empty, else those      *)
(* that hold the term, letter case aside, inside their name, code or       *)
(* region (countries), or inside their name, sector or code (industries).  *)
SameLetter(a, b) ==
    a = b \/ \E i \in DOMAIN UpperChars : {a, b} = {UpperChars[i], LowerChars[i]}
ContainsIgnoringCase(s, term) ==
    \E off \in 0..(Len(s) - Len(term)) :
        \A k \in 1..Len(term) : SameLetter(s[off + k], term[k])
Retained(item, tab, term) ==
    \/ term = << >>
    \/ \E f \in (IF tab = "countries" THEN {"country_name", "country_code", "region"}
                 ELSE {"industry_name", "sector", "industry_code"}) :
          f \in DOMAIN item /\ ContainsIgnoringCase(item[f].s, term)
C17_FilterRetainsMatches ==
    /\ Range(tableRows) =
          {item \in Range(tableData[activeTab]) : Retained(item, activeTab, searchTerm)}
    /\ Cardinality(Range(tableRows)) = Len(tableRows)

(* A term typed in capitals retains two of three countries through fields  *)
(* written in another case.                                                *)
C17_Witness ==
    /\ searchTerm = <<"N", "A">> /\ activeTab = "countries"
    /\ Len(tableData.countries) = MaxRows /\ Len(tableRows) = MaxRows - 1

(* C18, as claimed: two rows with the same value of the sort key stand in  *)
(* the order they have in the table as it was fetched.                     *)
PositionIn(seq, item) == CHOOSE i \in DOMAIN seq : seq[i] = item
C18_SortStable ==
    \A i \in DOMAIN tableRows : \A j \in DOMAIN tableRows :
        (i < j /\ Get(tableRows[i], sortConfig.key) = Get(tableRows[j], sortConfig.key))
            => PositionIn(fetchedTable[activeTab], tableRows[i])
                   < PositionIn(fetchedTable[activeTab], tableRows[j])

(* C19: computing the view again, on tableData as the last computation     *)
(* left it and with the same tab, term, key and direction, gives the rows  *)
(* on display and leaves tableData as it is.                               *)
C19_ViewIdempotent ==
    /\ TableEffect(tableData, activeTab, searchTerm, sortConfig).rows = tableRows
    /\ TableEffect(tableData, activeTab, searchTerm, sortConfig).tableData = tableData

(* The computation has reordered the table it was given, and the rows on   *)
(* display hold a tie.                                                     *)
C19_Witness ==
    /\ tableData # fetchedTable
    /\ Len(tableRows) = MaxRows
    /\ \E i \in DOMAIN tableRows : \E j \in DOMAIN tableRows :
          i < j /\ Compare(tableRows[i], tableRows[j], sortConfig) = 0

(* C20, as claimed: the snapshot's table holds the records of the response *)
(* in the order of the response.                                           *)
C20_SnapshotNotMutated == tableData = fetchedTable

(* C25, as claimed: whatever the sort field, the rows that lack it stand   *)
(* before every row that has it when the order is ascending, and after     *)
(* every such row when it is descending.                                   *)
HasField(item, key) == Get(item, key) # Undefined
C25_AbsentFieldSortsLowest ==
    \A i \in DOMAIN tableRows : \A j \in DOMAIN tableRows :
        i < j =>
            IF sortConfig.direction = "ascending"
            THEN ~(HasField(tableRows[i], sortConfig.key)
                   /\ ~HasField(tableRows[j], sortConfig.key))
            ELSE ~(~HasField(tableRows[i], sortConfig.key)
                   /\ HasField(tableRows[j], sortConfig.key))

(* C21, as claimed: every point of the map, whatever its record carried,   *)
(* has a latitude within 90 degrees of the equator and a longitude within  *)
(* 180 degrees of the meridian.                                            *)
Abs(n) == IF n < 0 THEN -n ELSE n
InRange(lat, lng) ==
    /\ lat.k = "number" /\ Abs(lat.n) <= 90 * Degree
    /\ lng.k = "number" /\ Abs(lng.n) <= 180 * Degree
C21_CoordinatesInRange ==
    \A i \in DOMAIN countriesWithCoords :
        InRange(Center(countriesWithCoords[i])[1], Center(countriesWithCoords[i])[2])

(* C22, as claimed: a point whose record carries a numeric latitude and    *)
(* longitude within range, zero included, is the record unchanged;         *)
(* otherwise it has the coordinates the table gives for its display name;  *)
(* otherwise latitude 0 and longitude 0.                                   *)
ResolvedInOrder(country) ==
    IF InRange(Get(country, "lat"), Get(country, "lng")) THEN country
    ELSE IF CountryName(country).s \in DOMAIN countryCoordinates
    THEN WithCoordinates(country, countryCoordinates[CountryName(country).s])
    ELSE WithCoordinates(country, [lat |-> Num(0), lng |-> Num(0)])
C22_ResolutionOrder ==
    countriesWithCoords = [i \in DOMAIN heatmapData |-> ResolvedInOrder(heatmapData[i])]

(* C23, as claimed: the magnitude of a point is the first of value,        *)
(* tariff_impact and trade_deficit that its record defines as a number,    *)
(* a 0 included, and 0 when it defines none.                               *)
IsNumber(v) == v.k = "number"
FirstPresent(country) ==
    IF IsNumber(Get(country, "value")) THEN Get(country, "value")
    ELSE IF IsNumber(Get(country, "tariff_impact")) THEN Get(country, "tariff_impact")
    ELSE IF IsNumber(Get(country, "trade_deficit")) THEN Get(country, "trade_deficit")
    ELSE Num(0)
C23_MagnitudeFirstPresent ==
    \A i \in DOMAIN countriesWithCoords :
        Magnitude(countriesWithCoords[i]) = FirstPresent(countriesWithCoords[i])

(* C24: in both colour scales, a call with min < max and a number for      *)
(* value normalizes it to a number from 0 to 1: to 0 when value is min or  *)
(* below, to 1 when value is max or above.                                 *)
IsZero(q) == q.k = "number" /\ q.num = 0
IsOne(q) == q.k = "number" /\ q.num = q.den
C24_NormalizedClamped ==
    (/\ colorScale # NoCall
     /\ colorScale.value.k = "number"
     /\ colorScale.min.n < colorScale.max.n)
        => LET q == colorScale.color.normalized IN
            /\ q.k = "number" /\ 0 <= q.num /\ q.num <= q.den
            /\ colorScale.value.n <= colorScale.min.n => IsZero(q)
            /\ colorScale.value.n >= colorScale.max.n => IsOne(q)

(* The exported scale has been called with the ends 0 and MaxScale and a   *)
(* value above MaxScale: the result is 1, and the colour has all of its    *)
(* red and none of its blue.                                               *)
C24_Witness ==
    /\ colorScale # NoCall
    /\ colorScale.impl = "part_000"
    /\ colorScale.min = Num(0) /\ colorScale.max = Num(MaxScale)
    /\ colorScale.value = Num(MaxScale + 1)
    /\ IsOne(colorScale.color.normalized)
    /\ colorScale.color.r = Num(255) /\ colorScale.color.b = Num(0)

(* C26, as claimed: in both colour scales, a call with max equal to min    *)
(* normalizes every value to 0.                                            *)
C26_EqualEndsGiveZero ==
    (/\ colorScale # NoCall
     /\ colorScale.value.k = "number"
     /\ colorScale.min = colorScale.max)
        => IsZero(colorScale.color.normalized)

(* C27, as claimed: when a fetch cycle completes without an error, each of *)
(* the four collections is the one that cycle produced: read from its      *)
(* composite, or from its constituent fetch, empty where that fetch gave   *)
(* nothing.                                                                *)
C27_SnapshotReplacedWhole ==
    [][\A c \in 1..MaxCycles :
          /\ \A S \in CompositeShapes :
                (Alive /\ DashboardSettles(c, HttpObject(Composite(c, S)))) =>
                    \A f \in Fields : CollectionAfter(f) = FromDashboard(c)
          /\ \A r \in ConstituentResults :
                (Alive /\ ConstituentsSettle(c, r) /\ \A f \in Fields : r[f] # "rejected") =>
                    \A f \in Fields : CollectionAfter(f) = ConstituentField(r, f, c)]_vars

(* C28, as claimed: under a mounted provider loading is true while a fetch *)
(* cycle is in flight, and false when at least one has been started and    *)
(* none is in flight.                                                      *)
C28_LoadingWhileInFlight ==
    lifecycle = "mounted" =>
        /\ InFlight # {} => loading
        /\ (InFlight = {} /\ nextCycle > 1) => ~loading

(* The step in which fetch cycle c completes.                              *)
CycleCompletes(c) == c \in DOMAIN cycles /\ c \notin DOMAIN cycles'

(* C29, as claimed: a fetch cycle that completes leaves alone every part   *)
(* of the snapshot that a cycle started after it has written.              *)
C29_LaterStartedCycleWins ==
    [][\A c \in 1..MaxCycles :
          (Alive /\ CycleCompletes(c)) =>
              \A i \in DOMAIN Snapshot :
                  Snapshot[i].cyc > c => Snapshot'[i] = Snapshot[i]]_vars

(* C30, as claimed: when a fetch cycle completes without failing, error is *)
(* none.                                                                   *)
C30_ErrorOfLastCompleted ==
    [][\A c \in 1..MaxCycles :
          (Alive /\ CycleCompletes(c) /\ ~CycleFails(c)) => error' = NULL]_vars

====
